---- MODULE Spec2Model ----
(***************************************************************************)
(* A SOCKS5 proxy session (n0z0/simpleproxy, main.go): method negotiation, *)
(* request dispatch (CONNECT / UDP ASSOCIATE), and the two-goroutine       *)
(* stream relay.  Byte strings and Go strings are sequences of byte values *)
(* (a Go string is the sequence of its ASCII codes).                       *)
(***************************************************************************)
EXTENDS Integers, Sequences, FiniteSets, TLC

(* ---------------------------------------------------------------- bounds *)
MaxMethods == 2
MaxDomainLen == 2
MaxPayload == 3
MaxDatagrams == 2

(* ------------------------------------------------------ program constants *)
socks5Version == 5
noAuth == 0
connectCmd == 1
udpAssociate == 3
ipv4Address == 1
domainName == 3
ipv6Address == 4
\* a channel capacity that makes the second send wait for a receiver
DoneCapOne == 2 - 1

DoneCap == 2
RepSucceeded == 0
RepGeneralFailure == RepSucceeded + 1
RepConnRefused == 5
RepCmdNotSupported == 7
RepAddrNotSupported == 8
RelayWaitsBoth == DoneCap
\* the number of values relay receives from done before it returns
RelayWaits == 1

(* ------------------------------------------------------------ input pools *)
Versions == {4, 5}
MethodBytes == {0, 2}
Cmds == {1, 2, 3, 4}
AddrTypes == {1, 2, 3, 4}
\* 'a' and ':' : a host-name letter and the one byte SplitHostPort looks for
DomainChars == {97, 58}
IPv4Pool == { <<93, 184, 216, 34>>, <<127, 0, 0, 1>> }
\* 2001:db8::1, ::1, and the IPv4-mapped ::ffff:127.0.0.1
IPv6Pool == { <<32, 1, 13, 184, 0, 0, 0, 0, 0, 0, 0, 0, 0, 0, 0, 1>>,
              <<0, 0, 0, 0, 0, 0, 0, 0, 0, 0, 0, 0, 0, 0, 0, 1>>,
              <<0, 0, 0, 0, 0, 0, 0, 0, 0, 0, 255, 255, 127, 0, 0, 1>> }
\* ports 80 and 8080 as they appear on the wire
PortPool == { <<0, 80>>, <<31, 144>> }
\* local port of the shared datagram socket (main.go: port argument)
UdpPortPool == { 1080, 8080 }
\* the relay never looks at the bytes it copies: the client's k-th byte is k,
\* the destination's k-th byte is 100 + k, so every byte is told apart
ClientByte(k) == k
TargetByte(k) == 100 + k

SeqsOf(S, n) == [1..n -> S]

IsPrefix(s, t) == Len(s) <= Len(t) /\ SubSeq(t, 1, Len(s)) = s

(* ------------------------------------------------------- string formatting *)
RECURSIVE Decimal(_)
\* fmt %d of a non-negative integer
Decimal(n) == IF n < 10 THEN <<48 + n>> ELSE Decimal(n \div 10) \o <<48 + (n % 10)>>

HexDigit(d) == IF d < 10 THEN 48 + d ELSE 87 + d

RECURSIVE Hex(_)
\* lower-case hex without leading zeros
Hex(n) == IF n < 16 THEN <<HexDigit(n)>> ELSE Hex(n \div 16) \o <<HexDigit(n % 16)>>

\* dotted quad of 4 bytes
IPv4String(b) ==
    Decimal(b[1]) \o <<46>> \o Decimal(b[2]) \o <<46>> \o Decimal(b[3]) \o <<46>> \o Decimal(b[4])

\* net.IP.To4 on a 16-byte address: the IPv4-mapped prefix ::ffff:0:0/96
IsV4Mapped(ip) ==
    /\ Len(ip) = 16
    /\ \A i \in 1..10 : ip[i] = 0
    /\ ip[11] = 255 /\ ip[12] = 255

\* the eight 16-bit groups of a 16-byte address
Groups(ip) == [i \in 1..8 |-> ip[2 * i - 1] * 256 + ip[2 * i]]

RECURSIVE ZeroRun(_, _)
\* number of consecutive zero groups starting at group i
ZeroRun(g, i) == IF i > 8 \/ g[i] # 0 THEN 0 ELSE 1 + ZeroRun(g, i + 1)

\* start of the first longest run of at least two zero groups, 0 if none
ZeroStart(g) ==
    LET cand == { i \in 1..8 : /\ ZeroRun(g, i) >= 2
                               /\ \A k \in 1..8 : ZeroRun(g, k) <= ZeroRun(g, i)
                               /\ \A k \in 1..(i - 1) : ZeroRun(g, k) < ZeroRun(g, i) }
    IN IF cand = {} THEN 0 ELSE CHOOSE i \in cand : TRUE

RECURSIVE EmitGroups(_, _, _)
EmitGroups(g, i, zs) ==
    IF i > 8 THEN <<>>
    ELSE IF i = zs
         THEN LET ze == zs + ZeroRun(g, zs)
              IN <<58, 58>> \o (IF ze > 8 THEN <<>>
                                ELSE Hex(g[ze]) \o EmitGroups(g, ze + 1, zs))
         ELSE (IF i > 1 THEN <<58>> ELSE <<>>) \o Hex(g[i]) \o EmitGroups(g, i + 1, zs)

\* textual IPv6 with the longest zero run compressed to "::"
IPv6String(ip) == EmitGroups(Groups(ip), 1, ZeroStart(Groups(ip)))

\* net.IP(addr).String()
IPString(ip) ==
    IF Len(ip) = 4 THEN IPv4String(ip)
    ELSE IF IsV4Mapped(ip) THEN IPv4String(SubSeq(ip, 13, 16))
    ELSE IPv6String(ip)

\* binary.BigEndian.Uint16
Uint16BE(b) == b[1] * 256 + b[2]

PutUint16LE(v) == << v % 256, (v % 65536) \div 256 >>

\* binary.BigEndian.PutUint16 of uint16(v)
PutUint16BE(v) == << (v % 65536) \div 256, v % 256 >>

\* fmt.Sprintf("%s:%d", targetAddr, port)
FormatTarget(host, port) == host \o <<58>> \o Decimal(port)

(* ---------------------------------------------- what net.Dial makes of it *)
Indexes(s, c) == { i \in 1..Len(s) : s[i] = c }
LastIndex(s, c) == IF Indexes(s, c) = {} THEN 0 ELSE CHOOSE i \in Indexes(s, c) : \A j \in Indexes(s, c) : j <= i
FirstIndex(s, c) == IF Indexes(s, c) = {} THEN 0 ELSE CHOOSE i \in Indexes(s, c) : \A j \in Indexes(s, c) : j >= i

\* net.SplitHostPort as net.Dial applies it to the address argument
SplitHostPort(s) ==
    LET i == LastIndex(s, 58)
        bad == [ok |-> FALSE, host |-> <<>>, port |-> <<>>]
    IN IF i = 0 THEN bad
       ELSE IF s[1] = 91
            THEN LET end == FirstIndex(s, 93)
                 IN IF end = 0 \/ end + 1 # i THEN bad
                    ELSE IF Indexes(SubSeq(s, 2, Len(s)), 91) # {} \/ Indexes(SubSeq(s, end + 1, Len(s)), 93) # {}
                         THEN bad
                         ELSE [ok |-> TRUE, host |-> SubSeq(s, 2, end - 1), port |-> SubSeq(s, i + 1, Len(s))]
            ELSE IF Indexes(SubSeq(s, 1, i - 1), 58) # {} THEN bad
                 ELSE IF Indexes(s, 91) # {} \/ Indexes(s, 93) # {} THEN bad
                      ELSE [ok |-> TRUE, host |-> SubSeq(s, 1, i - 1), port |-> SubSeq(s, i + 1, Len(s))]

(* --------------------------------------------------- parsing address text *)
RECURSIVE ParseDecimal(_)
\* the number a string of decimal digits denotes
ParseDecimal(s) ==
    IF s = <<>> THEN 0
    ELSE ParseDecimal(SubSeq(s, 1, Len(s) - 1)) * 10 + (s[Len(s)] - 48)

IsDecimal(s) == s # <<>> /\ \A i \in 1..Len(s) : s[i] \in 48..57

RECURSIVE Fields(_, _)
\* the fields of s between occurrences of the byte c
Fields(s, c) ==
    IF Indexes(s, c) = {} THEN <<s>>
    ELSE <<SubSeq(s, 1, FirstIndex(s, c) - 1)>> \o Fields(SubSeq(s, FirstIndex(s, c) + 1, Len(s)), c)

\* the four bytes a dotted quad denotes, <<>> if it is none
ParseIPv4(h) ==
    LET f == Fields(h, 46)
    IN IF Len(f) = 4 /\ \A i \in 1..4 : IsDecimal(f[i]) /\ ParseDecimal(f[i]) <= 255
       THEN [i \in 1..4 |-> ParseDecimal(f[i])]
       ELSE <<>>

\* value of a hex digit, -1 if the byte is none
HexValue(c) == IF c \in 48..57 THEN c - 48
               ELSE IF c \in 97..102 THEN c - 87
               ELSE IF c \in 65..70 THEN c - 55 ELSE 0 - 1

RECURSIVE ParseHex(_)
ParseHex(s) ==
    IF s = <<>> THEN 0
    ELSE ParseHex(SubSeq(s, 1, Len(s) - 1)) * 16 + HexValue(s[Len(s)])

IsHexGroup(s) == Len(s) \in 1..4 /\ \A i \in 1..Len(s) : HexValue(s[i]) >= 0

\* the colon-separated hex groups of s, <<>> for the empty string
HexGroups(s) == IF s = <<>> THEN <<>> ELSE Fields(s, 58)

\* the 16 bytes of eight 16-bit groups
GroupBytes(g) == [i \in 1..16 |-> IF i % 2 = 1 THEN g[(i + 1) \div 2] \div 256
                                    ELSE g[i \div 2] % 256]

\* the 16 bytes a textual IPv6 address of hex groups denotes, with at most
\* one "::" standing for the missing zero groups; <<>> if it is none
ParseIPv6(h) ==
    LET dbl == { i \in 1..(Len(h) - 1) : h[i] = 58 /\ h[i + 1] = 58 }
    IN IF dbl = {}
       THEN LET f == HexGroups(h)
            IN IF Len(f) = 8 /\ \A i \in 1..8 : IsHexGroup(f[i])
               THEN GroupBytes([i \in 1..8 |-> ParseHex(f[i])])
               ELSE <<>>
       ELSE LET at == CHOOSE i \in dbl : \A k \in dbl : i <= k
                l == HexGroups(SubSeq(h, 1, at - 1))
                r == HexGroups(SubSeq(h, at + 2, Len(h)))
                z == 8 - Len(l) - Len(r)
            IN IF /\ z >= 1
                  /\ \A i \in 1..Len(l) : IsHexGroup(l[i])
                  /\ \A i \in 1..Len(r) : IsHexGroup(r[i])
               THEN GroupBytes([i \in 1..8 |->
                        IF i <= Len(l) THEN ParseHex(l[i])
                        ELSE IF i <= Len(l) + z THEN 0
                        ELSE ParseHex(r[i - Len(l) - z])])
               ELSE <<>>

\* net.ParseIP: the 16-byte form of a dotted quad or of a textual IPv6
\* address, <<>> (nil) if s is neither
ParseIP(s) ==
    IF ParseIPv4(s) # <<>>
    THEN <<0, 0, 0, 0, 0, 0, 0, 0, 0, 0, 255, 255>> \o ParseIPv4(s)
    ELSE ParseIPv6(s)

\* net.IP.To4: the last four bytes of an IPv4-mapped address, else nil
To4(ip) == IF Len(ip) = 4 THEN ip
           ELSE IF IsV4Mapped(ip) THEN SubSeq(ip, 13, 16) ELSE <<>>

\* net.IP.To16
To16(ip) == IF Len(ip) = 4 THEN <<0, 0, 0, 0, 0, 0, 0, 0, 0, 0, 255, 255>> \o ip
            ELSE IF Len(ip) = 16 THEN ip ELSE <<>>

(* ------------------------------------------------------------ wire replies *)
\* the bytes sendReply writes
Reply(rep) == <<socks5Version, rep, 0, 1, 0, 0, 0, 0, 0, 0>>

\* the bytes handleUDPAssociate writes
UdpReply(port) == <<socks5Version, 0, 0, 1>> \o <<0, 0, 0, 0>> \o PutUint16BE(port)

MethodReplyNone == <<socks5Version, 255>>

\* the bytes handshake writes
MethodReply == <<socks5Version, noAuth>>

SupportedAddrTypes == {ipv4Address, domainName, ipv6Address}

CommandRouteBind(c) == IF c \in {connectCmd, 2} THEN "connect"
                       ELSE IF c = udpAssociate THEN "udp" ELSE "unsupported"

\* handleRequest's switch on the command byte
CommandRoute(c) == IF c = connectCmd THEN "connect"
                   ELSE IF c = udpAssociate THEN "udp" ELSE "unsupported"

\* handleRequest's switch on the address type: the next read, or the default
ConnectAddrRoute(a) == IF a \in SupportedAddrTypes THEN "reqAddr" ELSE "unsupported"

\* handleUDPAssociate's switch on the address type, which has no default
UdpAddrRoute(a) == IF a \in SupportedAddrTypes THEN "udpAddr" ELSE "udpPort"

(* ------------------------------------------------------------------ state *)
VARIABLES
    pc,          \* where the handleConnection goroutine is
    err,         \* the error handshake / handleRequest returned, "" if none
    cliState,    \* the client's end of the control connection: open, eof, aborted
    connClosed,  \* conn.Close() has run
    cliOut,      \* bytes passed to conn.Write on the control connection, in order
    nread,       \* bytes the successful io.ReadFull calls of the current function consumed
    version,     \* handshake: buf[0]
    nMethods,    \* handshake: buf[1]
    methods,     \* handshake: methods
    reqVersion,  \* handleRequest: buf[0]
    cmd,         \* handleRequest: buf[1]
    addrType,    \* handleRequest: buf[3]
    lenBuf,      \* domain length byte
    addr,        \* address bytes read from the request
    portBuf,     \* port bytes read from the request
    target,      \* handleRequest: target, the string given to net.Dial
    dialed,      \* handleRequest: host and port net.Dial connected to, NoDial if none
    reachable,   \* environment: the destination accepts connections
    tgtState,    \* the destination's end: none, open, eof, aborted
    tgtClosed,   \* targetConn.Close() has run on a dialed connection
    targetConn,  \* what handleRequest returned: nil, tcp, dummy
    udpPort,     \* udpConn.LocalAddr().Port
    cin,         \* bytes the client sent after the request, not yet read
    cliSent,     \* all bytes the client sent after the request
    tin,         \* bytes the destination sent, not yet read
    tgtSent,     \* all bytes the destination sent
    tgtOut,      \* bytes passed to targetConn.Write on a dialed connection, in order
    cp,          \* the two copy goroutines of relay: position and buffer
    done,        \* number of values in relay's done channel
    buffer,      \* handleUDPRelay: the used prefix of the one receive buffer
    received,    \* datagrams ReadFromUDP has returned so far
    tasks        \* the processUDPPacket goroutines, by the datagram's number

ctlVars == <<pc, err, connClosed, cliOut, nread>>
hsVars == <<version, nMethods, methods>>
reqVars == <<reqVersion, cmd, addrType, lenBuf, addr, portBuf, target>>
netVars == <<dialed, reachable, tgtState, tgtClosed, targetConn>>
relayVars == <<cin, cliSent, tin, tgtSent, tgtOut, cp, done>>
udpVars == <<udpPort, buffer, received, tasks>>
vars == <<ctlVars, cliState, hsVars, reqVars, netVars, relayVars, udpVars>>

NoDial == [host |-> <<>>, port |-> <<>>, ok |-> FALSE]
Dirs == {"c2t", "t2c"}
Idle == [pos |-> "idle", buf |-> <<>>]

\* a processUDPPacket goroutine that has not been started: its position, its
\* arguments (len(data) and clientAddr), its locals, its ephemeral socket,
\* what it wrote on that socket and on the shared socket, and why it returned
\* early; orig remembers the datagram ReadFromUDP returned for it
NoTask == [pos |-> "idle", n |-> 0, clientAddr |-> 0, orig |-> <<>>,
           addrType |-> 0, targetAddr |-> <<>>, targetPort |-> 0, headerLen |-> 0,
           tempConn |-> "none", sent |-> <<>>, replies |-> <<>>, why |-> ""]

Init ==
    /\ pc = "hsHeader"
    /\ err = ""
    /\ cliState = "open"
    /\ connClosed = FALSE
    /\ cliOut = <<>>
    /\ nread = 0
    /\ version = 0 /\ nMethods = 0 /\ methods = <<>>
    /\ reqVersion = 0 /\ cmd = 0 /\ addrType = 0
    /\ lenBuf = 0 /\ addr = <<>> /\ portBuf = <<>> /\ target = <<>>
    /\ dialed = NoDial
    /\ reachable = FALSE
    /\ tgtState = "none"
    /\ tgtClosed = FALSE
    /\ targetConn = "nil"
    /\ udpPort \in UdpPortPool
    /\ cin = <<>> /\ cliSent = <<>> /\ tin = <<>> /\ tgtSent = <<>> /\ tgtOut = <<>>
    /\ cp = [d \in Dirs |-> Idle]
    /\ done = 0
    /\ buffer = <<>>
    /\ received = 0
    /\ tasks = [t \in 1..MaxDatagrams |-> NoTask]

(* --------------------------------------------------------- handleConnection *)
\* handleConnection returns on an error: the deferred conn.Close() runs
ReturnErr(e) ==
    /\ pc' = "done"
    /\ err' = e
    /\ connClosed' = TRUE

\* io.ReadFull(conn, buf) with len(buf) = n returns nil: a zero-length read
\* returns at once, otherwise the n bytes must arrive
CanRead(n) == n = 0 \/ cliState = "open"

\* io.ReadFull(conn, buf) returns an error: the stream ended or broke first
ReadFails(n) == n > 0 /\ cliState # "open"

\* conn.Write on the control connection returns an error
WriteFails == cliState = "aborted"

\* handshake, up to the first read (main.go 88-98)
HandshakeHeader ==
    /\ pc = "hsHeader"
    /\ \/ /\ CanRead(2)
          /\ \E v \in Versions, n \in 0..MaxMethods :
                /\ version' = v
                /\ nMethods' = n
                /\ nread' = nread + 2
                /\ IF v # socks5Version
                   THEN ReturnErr("version")
                   ELSE pc' = "hsMethods" /\ UNCHANGED <<err, connClosed>>
       \/ /\ ReadFails(2)
          /\ ReturnErr("read")
          /\ UNCHANGED <<version, nMethods, nread>>
    /\ UNCHANGED <<cliOut, methods, cliState, reqVars, netVars, relayVars, udpVars>>

\* handshake, the methods read and the reply (main.go 100-108)
HandshakeMethods ==
    /\ pc = "hsMethods"
    /\ \/ /\ CanRead(nMethods)
          /\ \E m \in SeqsOf(MethodBytes, nMethods) : methods' = m
          /\ nread' = nread + nMethods
          /\ cliOut' = cliOut \o MethodReply
          /\ IF WriteFails
             THEN ReturnErr("write")
             ELSE pc' = "reqHeader" /\ UNCHANGED <<err, connClosed>>
       \/ /\ ReadFails(nMethods)
          /\ ReturnErr("read")
          /\ UNCHANGED <<methods, nread, cliOut>>
    /\ UNCHANGED <<version, nMethods, cliState, reqVars, netVars, relayVars, udpVars>>

\* handleRequest: header, version check, command switch, address-type switch
\* as far as the next read (main.go 113-170; handleUDPAssociate 233-242).
\* handshake has returned: its locals are gone and the byte count restarts.
RequestHeader ==
    /\ pc = "reqHeader"
    /\ version' = 0 /\ nMethods' = 0 /\ methods' = <<>>
    /\ \/ /\ CanRead(4)
          /\ \E v \in Versions, c \in Cmds, a \in AddrTypes :
                /\ reqVersion' = v /\ cmd' = c /\ addrType' = a
                /\ nread' = 4
                /\ IF v # socks5Version
                   THEN ReturnErr("version") /\ UNCHANGED cliOut
                   ELSE IF CommandRoute(c) = "connect"
                   THEN IF ConnectAddrRoute(a) = "unsupported"
                        THEN /\ cliOut' = cliOut \o Reply(RepAddrNotSupported)
                             /\ ReturnErr("addrtype")
                        ELSE /\ pc' = ConnectAddrRoute(a)
                             /\ UNCHANGED <<err, connClosed, cliOut>>
                   ELSE IF CommandRoute(c) = "udp"
                   THEN /\ pc' = UdpAddrRoute(a)
                        /\ UNCHANGED <<err, connClosed, cliOut>>
                   ELSE /\ cliOut' = cliOut \o Reply(RepCmdNotSupported)
                        /\ ReturnErr("command")
       \/ /\ ReadFails(4)
          /\ ReturnErr("read")
          /\ nread' = 0
          /\ UNCHANGED <<reqVersion, cmd, addrType, cliOut>>
    /\ UNCHANGED <<lenBuf, addr, portBuf, target, cliState, netVars, relayVars, udpVars>>

\* the host part of the dial string (main.go 147, 158, 165)
TargetAddr(atyp, a) == IF atyp = domainName THEN a ELSE IPString(a)

\* handleRequest, CONNECT: the address read, for a domain its length byte
\* (main.go 141-165)
ConnectAddr ==
    /\ pc = "reqAddr"
    /\ \/ /\ addrType = ipv4Address /\ CanRead(4)
          /\ \E a \in IPv4Pool : addr' = a
          /\ nread' = nread + 4
          /\ pc' = "reqPort"
          /\ UNCHANGED <<lenBuf, err, connClosed>>
       \/ /\ addrType = ipv6Address /\ CanRead(16)
          /\ \E a \in IPv6Pool : addr' = a
          /\ nread' = nread + 16
          /\ pc' = "reqPort"
          /\ UNCHANGED <<lenBuf, err, connClosed>>
       \/ /\ addrType = domainName /\ CanRead(1)
          /\ \E n \in 0..MaxDomainLen : lenBuf' = n
          /\ nread' = nread + 1
          /\ pc' = "reqDomain"
          /\ UNCHANGED <<addr, err, connClosed>>
       \/ /\ ReadFails(1)
          /\ ReturnErr("read")
          /\ UNCHANGED <<addr, lenBuf, nread>>
    /\ UNCHANGED <<cliOut, reqVersion, cmd, addrType, portBuf, target, cliState,
                   hsVars, netVars, relayVars, udpVars>>

\* handleRequest, CONNECT: the domain bytes (main.go 154-158)
ConnectDomain ==
    /\ pc = "reqDomain"
    /\ \/ /\ CanRead(lenBuf)
          /\ \E a \in SeqsOf(DomainChars, lenBuf) : addr' = a
          /\ nread' = nread + lenBuf
          /\ pc' = "reqPort"
          /\ UNCHANGED <<err, connClosed>>
       \/ /\ ReadFails(lenBuf)
          /\ ReturnErr("read")
          /\ UNCHANGED <<addr, nread>>
    /\ UNCHANGED <<cliOut, reqVersion, cmd, addrType, lenBuf, portBuf, target, cliState,
                   hsVars, netVars, relayVars, udpVars>>

\* handleRequest, CONNECT: the port read and the dial string (main.go 172-180)
ConnectPort ==
    /\ pc = "reqPort"
    /\ \/ /\ CanRead(2)
          /\ \E p \in PortPool :
                /\ portBuf' = p
                /\ target' = FormatTarget(TargetAddr(addrType, addr), Uint16BE(p))
          /\ nread' = nread + 2
          /\ pc' = "dial"
          /\ UNCHANGED <<err, connClosed>>
       \/ /\ ReadFails(2)
          /\ ReturnErr("read")
          /\ UNCHANGED <<portBuf, target, nread>>
    /\ UNCHANGED <<cliOut, reqVersion, cmd, addrType, lenBuf, addr, cliState,
                   hsVars, netVars, relayVars, udpVars>>

\* net.Dial("tcp", target) and its error branch (main.go 181-185): the
\* address must split into host and port, and the destination must accept
Dial ==
    /\ pc = "dial"
    /\ \E r \in BOOLEAN :
          /\ reachable' = r
          /\ IF SplitHostPort(target).ok /\ r
             THEN /\ dialed' = SplitHostPort(target)
                  /\ tgtState' = "open"
                  /\ pc' = "reply"
                  /\ UNCHANGED <<err, connClosed, cliOut>>
             ELSE /\ cliOut' = cliOut \o Reply(RepConnRefused)
                  /\ ReturnErr("dial")
                  /\ UNCHANGED <<dialed, tgtState>>
    /\ UNCHANGED <<nread, tgtClosed, targetConn, cliState, hsVars, reqVars, relayVars, udpVars>>

\* both copy goroutines of relay started (main.go 215, 221)
Started == [d \in Dirs |-> [pos |-> "read", buf |-> <<>>]]

\* the success reply and handleRequest's return (main.go 187-194)
ConnectReply ==
    /\ pc = "reply"
    /\ cliOut' = cliOut \o Reply(RepSucceeded)
    /\ IF WriteFails
       THEN /\ tgtClosed' = TRUE
            /\ ReturnErr("write")
            /\ UNCHANGED targetConn
       ELSE /\ targetConn' = "tcp"
            /\ pc' = "accepted"
            /\ UNCHANGED <<err, connClosed, tgtClosed>>
    /\ UNCHANGED <<nread, dialed, reachable, tgtState, cliState, hsVars, reqVars, udpVars,
                   relayVars>>

(* -------------------------------------------------------- handleUDPAssociate *)
\* the discarded address read, its error ignored (main.go 233-242)
UdpAddr ==
    /\ pc = "udpAddr"
    /\ \/ /\ addrType = ipv4Address
          /\ \/ CanRead(4) /\ (\E a \in IPv4Pool : addr' = a) /\ nread' = nread + 4
             \/ ReadFails(4) /\ UNCHANGED <<addr, nread>>
          /\ pc' = "udpPort"
          /\ UNCHANGED lenBuf
       \/ /\ addrType = ipv6Address
          /\ \/ CanRead(16) /\ (\E a \in IPv6Pool : addr' = a) /\ nread' = nread + 16
             \/ ReadFails(16) /\ UNCHANGED <<addr, nread>>
          /\ pc' = "udpPort"
          /\ UNCHANGED lenBuf
       \/ /\ addrType = domainName
          /\ \/ CanRead(1) /\ (\E n \in 0..MaxDomainLen : lenBuf' = n) /\ nread' = nread + 1
             \/ ReadFails(1) /\ UNCHANGED <<lenBuf, nread>>
          /\ pc' = "udpDomain"
          /\ UNCHANGED addr
    /\ UNCHANGED <<err, connClosed, cliOut, reqVersion, cmd, addrType, portBuf, target,
                   cliState, hsVars, netVars, relayVars, udpVars>>

\* the discarded domain read, its error ignored (main.go 239)
UdpDomain ==
    /\ pc = "udpDomain"
    /\ \/ CanRead(lenBuf) /\ (\E a \in SeqsOf(DomainChars, lenBuf) : addr' = a)
            /\ nread' = nread + lenBuf
       \/ ReadFails(lenBuf) /\ UNCHANGED <<addr, nread>>
    /\ pc' = "udpPort"
    /\ UNCHANGED <<err, connClosed, cliOut, reqVersion, cmd, addrType, lenBuf, portBuf, target,
                   cliState, hsVars, netVars, relayVars, udpVars>>

\* the discarded port read, the reply, and the dummyConn returned
\* (main.go 243-270)
UdpPortReply ==
    /\ pc = "udpPort"
    /\ \/ CanRead(2) /\ (\E p \in PortPool : portBuf' = p) /\ nread' = nread + 2
       \/ ReadFails(2) /\ UNCHANGED <<portBuf, nread>>
    /\ cliOut' = cliOut \o UdpReply(udpPort)
    /\ IF WriteFails
       THEN /\ ReturnErr("write")
            /\ UNCHANGED targetConn
       ELSE /\ targetConn' = "dummy"
            /\ pc' = "accepted"
            /\ UNCHANGED <<err, connClosed>>
    /\ UNCHANGED <<reqVersion, cmd, addrType, lenBuf, addr, target, cliState, hsVars,
                   dialed, reachable, tgtState, tgtClosed, udpVars, relayVars>>

(* -------------------------------------------------------------------- relay *)
\* handleConnection calls relay(conn, targetConn), which starts its two
\* goroutines (main.go 80-83, 211-224); handleRequest's locals are gone
RelayStart ==
    /\ pc = "accepted"
    /\ pc' = "relay"
    /\ cp' = Started
    /\ reqVersion' = 0 /\ cmd' = 0 /\ addrType' = 0
    /\ lenBuf' = 0 /\ addr' = <<>> /\ portBuf' = <<>> /\ target' = <<>>
    /\ nread' = 0
    /\ dialed' = NoDial
    /\ UNCHANGED <<err, connClosed, cliOut, cliState, hsVars, udpVars,
                   reachable, tgtState, tgtClosed, targetConn,
                   cin, cliSent, tin, tgtSent, tgtOut, done>>

SrcIsClientAlways(d) == TRUE

\* the copy in direction d reads the control connection: client -> target
\* always, target -> client when the target is the dummyConn, whose Read is
\* the control connection's Read (main.go 216, 222, 277-280)
SrcIsClient(d) == d = "c2t" \/ targetConn = "dummy"

\* the control connection is closed once conn.Close() ran; closing the
\* dummyConn closes the connection it embeds
SrcClosed(d) == IF SrcIsClient(d) THEN connClosed ELSE tgtClosed
SrcState(d) == IF SrcIsClient(d) THEN cliState ELSE tgtState
SrcBuf(d) == IF SrcIsClient(d) THEN cin ELSE tin

SetPos(d, p, b) == cp' = [cp EXCEPT ![d] = [pos |-> p, buf |-> b]]

\* one src.Read of io.Copy's loop: some bytes, or EOF / an error, which
\* ends the copy (main.go 216, 222)
CopyRead(d) ==
    /\ cp[d].pos = "read"
    /\ \/ /\ ~SrcClosed(d) /\ SrcState(d) # "aborted" /\ SrcBuf(d) # <<>>
          /\ \E k \in 1..Len(SrcBuf(d)) :
                /\ SetPos(d, "write", SubSeq(SrcBuf(d), 1, k))
                /\ IF SrcIsClient(d)
                   THEN cin' = SubSeq(cin, k + 1, Len(cin)) /\ UNCHANGED tin
                   ELSE tin' = SubSeq(tin, k + 1, Len(tin)) /\ UNCHANGED cin
       \/ /\ \/ SrcClosed(d)
             \/ SrcState(d) = "aborted"
             \/ SrcState(d) = "eof" /\ SrcBuf(d) = <<>>
          /\ SetPos(d, "signal", <<>>)
          /\ UNCHANGED <<cin, tin>>
    /\ UNCHANGED <<ctlVars, cliState, hsVars, reqVars, netVars, udpVars,
                   cliSent, tgtSent, tgtOut, done>>

\* dummyConn.Write: no bytes go anywhere and it reports 0 written
\* (main.go 282-284)
DummyWrite(out, b) == out

\* net.Conn.Write of b on a connection whose written bytes so far are out
ConnWrite(out, b) == out \o b

\* one dst.Write of io.Copy's loop; a failed or short write ends the copy
\* (main.go 216, 222)
CopyWrite(d) ==
    /\ cp[d].pos = "write"
    /\ IF d = "t2c"
       THEN /\ cliOut' = IF connClosed THEN cliOut ELSE ConnWrite(cliOut, cp[d].buf)
            /\ SetPos(d, IF connClosed \/ WriteFails THEN "signal" ELSE "read", <<>>)
            /\ UNCHANGED tgtOut
       ELSE IF targetConn = "dummy"
       THEN /\ cliOut' = DummyWrite(cliOut, cp[d].buf)
            /\ SetPos(d, "signal", <<>>)
            /\ UNCHANGED tgtOut
       ELSE /\ tgtOut' = IF tgtClosed THEN tgtOut ELSE ConnWrite(tgtOut, cp[d].buf)
            /\ SetPos(d, IF tgtClosed \/ tgtState = "aborted" THEN "signal" ELSE "read", <<>>)
            /\ UNCHANGED cliOut
    /\ UNCHANGED <<pc, err, connClosed, nread, cliState, hsVars, reqVars, netVars, udpVars,
                   cin, cliSent, tin, tgtSent, done>>

\* done <- struct{}{} (main.go 217, 223)
CopySignal(d) ==
    /\ cp[d].pos = "signal"
    /\ done < DoneCap
    /\ done' = done + 1
    /\ SetPos(d, "done", <<>>)
    /\ UNCHANGED <<ctlVars, cliState, hsVars, reqVars, netVars, udpVars,
                   cin, cliSent, tin, tgtSent, tgtOut>>

\* <-done, relay returns, and handleConnection's deferred Close calls run
\* (main.go 227, 80, 66)
RelayReturn ==
    /\ pc = "relay"
    /\ done >= RelayWaits
    /\ done' = done - RelayWaits
    /\ pc' = "done"
    /\ connClosed' = TRUE
    /\ tgtClosed' = (targetConn = "tcp")
    /\ UNCHANGED <<err, cliOut, nread, cliState, hsVars, reqVars, udpVars,
                   dialed, reachable, tgtState, targetConn,
                   cin, cliSent, tin, tgtSent, tgtOut, cp>>

(* -------------------------------------------------------------- environment *)
\* the client sends a byte after its request
ClientWrite ==
    /\ pc = "relay"
    /\ cliState = "open"
    /\ Len(cliSent) < MaxPayload
    /\ cin' = Append(cin, ClientByte(Len(cliSent) + 1))
    /\ cliSent' = Append(cliSent, ClientByte(Len(cliSent) + 1))
    /\ UNCHANGED <<ctlVars, cliState, hsVars, reqVars, netVars, udpVars,
                   tin, tgtSent, tgtOut, cp, done>>

\* the client closes its sending side: reads see EOF once drained
ClientShutdown ==
    /\ pc # "done"
    /\ cliState = "open"
    /\ cliState' = "eof"
    /\ UNCHANGED <<ctlVars, hsVars, reqVars, netVars, relayVars, udpVars>>

\* the client resets the connection: reads and writes fail
ClientAbort ==
    /\ pc # "done"
    /\ cliState \in {"open", "eof"}
    /\ cliState' = "aborted"
    /\ UNCHANGED <<ctlVars, hsVars, reqVars, netVars, relayVars, udpVars>>

\* the destination sends a byte
TargetWrite ==
    /\ pc \in {"reply", "accepted", "relay"}
    /\ tgtState = "open"
    /\ Len(tgtSent) < MaxPayload
    /\ tin' = Append(tin, TargetByte(Len(tgtSent) + 1))
    /\ tgtSent' = Append(tgtSent, TargetByte(Len(tgtSent) + 1))
    /\ UNCHANGED <<ctlVars, cliState, hsVars, reqVars, netVars, udpVars,
                   cin, cliSent, tgtOut, cp, done>>

\* the destination closes its sending side
TargetShutdown ==
    /\ pc \in {"reply", "accepted", "relay"}
    /\ tgtState = "open"
    /\ tgtState' = "eof"
    /\ UNCHANGED <<ctlVars, cliState, hsVars, reqVars, udpVars, relayVars,
                   dialed, reachable, tgtClosed, targetConn>>

\* the destination resets the connection
TargetAbort ==
    /\ pc \in {"reply", "accepted", "relay"}
    /\ tgtState \in {"open", "eof"}
    /\ tgtState' = "aborted"
    /\ UNCHANGED <<ctlVars, cliState, hsVars, reqVars, udpVars, relayVars,
                   dialed, reachable, tgtClosed, targetConn>>

(* ------------------------------------------------------------ specification *)
Handler ==
    \/ HandshakeHeader
    \/ HandshakeMethods
    \/ RequestHeader
    \/ ConnectAddr
    \/ ConnectDomain
    \/ ConnectPort
    \/ Dial
    \/ ConnectReply
    \/ UdpAddr
    \/ UdpDomain
    \/ UdpPortReply
    \/ RelayStart
    \/ RelayReturn

CopyC2T == CopyRead("c2t") \/ CopyWrite("c2t") \/ CopySignal("c2t")
CopyT2C == CopyRead("t2c") \/ CopyWrite("t2c") \/ CopySignal("t2c")

Environment ==
    \/ ClientWrite
    \/ ClientShutdown
    \/ ClientAbort
    \/ TargetWrite
    \/ TargetShutdown
    \/ TargetAbort

Next == Handler \/ CopyC2T \/ CopyT2C \/ Environment

Spec == Init /\ [][Next]_vars

\* the Go scheduler runs every runnable goroutine
FairSpec == Spec /\ WF_vars(Handler) /\ WF_vars(CopyC2T) /\ WF_vars(CopyT2C)

(* ----------------------------------------------------------- datagram relay *)
\* the source address ReadFromUDP reports for the k-th datagram: the relay
\* never looks at it, so every datagram has its own and they are told apart
ClientAddr(k) == k

\* the first n bytes of s
Take(s, n) == SubSeq(s, 1, n)

\* a domain name of n letters
Letters(n) == [i \in 1..n |-> 97]

\* a SOCKS5 UDP envelope: RSV RSV FRAG ATYP, address, port, payload
Envelope(atyp, a, port, payload) == <<0, 0, 0, atyp>> \o a \o port \o payload

V4Packet == Envelope(ipv4Address, <<93, 184, 216, 34>>, <<31, 144>>, <<11>>)
V6Packet == Envelope(ipv6Address, <<0, 0, 0, 0, 0, 0, 0, 0, 0, 0, 0, 0, 0, 0, 0, 1>>, <<0, 53>>, <<>>)
DomainPacket(n, payload) == Envelope(domainName, <<n>> \o Letters(n), <<0, 53>>, payload)

\* the datagrams that arrive on the shared socket: well-formed envelopes of
\* the three address types with and without payload, envelopes cut short,
\* down to the empty datagram, nonzero reserved and fragment bytes, an
\* unknown address type
UdpDatagramPool ==
    { V4Packet,
      Envelope(ipv4Address, <<127, 0, 0, 1>>, <<0, 53>>, <<>>),
      Take(V4Packet, 9),
      <<>>,
      <<1, 0, 0, 1, 127, 0, 0, 1, 0, 53, 12>>,
      <<0, 1, 0, 1, 127, 0, 0, 1, 0, 53, 13>>,
      <<0, 0, 1, 1, 127, 0, 0, 1, 0, 53, 14>>,
      DomainPacket(1, <<>>),
      DomainPacket(3, <<15>>),
      Take(DomainPacket(4, <<>>), 10),
      V6Packet,
      Envelope(ipv6Address, <<0, 0, 0, 0, 0, 0, 0, 0, 0, 0, 255, 255, 127, 0, 0, 1>>, <<31, 144>>, <<16>>),
      Take(V6Packet, 21),
      Envelope(2, <<127, 0, 0, 1>>, <<0, 53>>, <<17>>) }

\* what the destination answers
UdpReplyPool == { <<TargetByte(1), TargetByte(2)>> }

\* the length checks of processUDPPacket: the first one, and the one of each
\* address type (main.go 301, 324, 330, 335, 341)
MinPacketLen == 10
MinIPv4Len == 10
MinLenByteLen == 5
MinDomainLenNoPort(domainLen) == 5 + domainLen
MinDomainLen(domainLen) == 7 + domainLen
MinIPv6Len == 22

\* data[i] of the Go code, i counted from 0; a read at or beyond len(data)
\* panics, and ReadBound below says so, so its value here does not matter
Byte(data, i) == IF i < Len(data) THEN data[i + 1] ELSE 0

\* data[lo:hi] of the Go code, cut at len(data) where the code would panic
Slice(data, lo, hi) == SubSeq(data, lo + 1, IF hi <= Len(data) THEN hi ELSE Len(data))

\* the greatest bound processUDPPacket uses on data along the path it takes:
\* one more than the highest index it reads, or the upper end of the last
\* slice it takes (main.go 301-358); the runtime panics when it exceeds len(data)
ReadBound(data) ==
    LET n == Len(data)
    IN IF n < MinPacketLen THEN 0
       ELSE IF Byte(data, 0) # 0 THEN 1
       ELSE IF Byte(data, 1) # 0 THEN 2
       ELSE IF Byte(data, 2) # 0 THEN 3
       ELSE IF Byte(data, 3) = ipv4Address
            THEN IF n < MinIPv4Len THEN 4 ELSE 10
       ELSE IF Byte(data, 3) = domainName
            THEN IF n < MinLenByteLen THEN 4
                 ELSE IF n < MinDomainLen(Byte(data, 4)) THEN 5
                 ELSE 7 + Byte(data, 4)
       ELSE IF Byte(data, 3) = ipv6Address
            THEN IF n < MinIPv6Len THEN 4 ELSE 22
       ELSE 4

\* processUDPPacket's validation and header decoding of data (main.go
\* 300-358): whether the packet goes on, else why it is dropped or that the
\* goroutine panicked on an index out of range, and the locals addrType,
\* targetAddr, headerLen, targetPort
ParsePacket(data) ==
    LET n == Len(data)
        drop(w) == [ok |-> FALSE, why |-> w, addrType |-> 0, targetAddr |-> <<>>,
                    headerLen |-> 0, targetPort |-> 0]
        pass(a, h) == [ok |-> TRUE, why |-> "", addrType |-> Byte(data, 3), targetAddr |-> a,
                       headerLen |-> h,
                       targetPort |-> Uint16BE(Slice(data, h - 2, h))]
    IN IF ReadBound(data) > n THEN drop("panic")
       ELSE IF n < MinPacketLen THEN drop("short")
       ELSE IF Byte(data, 0) # 0 \/ Byte(data, 1) # 0 THEN drop("reserved")
       ELSE IF Byte(data, 2) # 0 THEN drop("fragment")
       ELSE IF Byte(data, 3) = ipv4Address
            THEN IF n < MinIPv4Len THEN drop("short")
                 ELSE pass(IPString(Slice(data, 4, 8)), 10)
       ELSE IF Byte(data, 3) = domainName
            THEN IF n < MinLenByteLen THEN drop("short")
                 ELSE IF n < MinDomainLen(Byte(data, 4)) THEN drop("short")
                 ELSE pass(Slice(data, 5, 5 + Byte(data, 4)), 7 + Byte(data, 4))
       ELSE IF Byte(data, 3) = ipv6Address
            THEN IF n < MinIPv6Len THEN drop("short")
                 ELSE pass(IPString(Slice(data, 4, 20)), 22)
       ELSE drop("addrtype")

\* buildUDPReply (main.go 406-433)
buildUDPReply(targetAddr, targetPort, atyp, payload) ==
    <<0, 0, 0>> \o <<atyp>>
    \o (IF atyp = ipv4Address THEN To4(ParseIP(targetAddr))
        ELSE IF atyp = domainName THEN <<Len(targetAddr) % 256>> \o targetAddr
        ELSE IF atyp = ipv6Address THEN To16(ParseIP(targetAddr))
        ELSE <<>>)
    \o PutUint16BE(targetPort) \o payload

SetTask(t, r) == tasks' = [tasks EXCEPT ![t] = r]

TaskIds == 1..MaxDatagrams

\* a goroutine panicked: the runtime ends the whole process
Crashed == \E t \in TaskIds : tasks[t].pos = "panic"

TempConnLeftOpen == "open"

\* the ephemeral socket once processUDPPacket has returned after DialUDP:
\* the deferred tempConn.Close() has run (main.go 375)
TempConnDeferred == "closed"

LoopWaitsForTask == {"parse", "forward", "await", "exit"}

\* the positions of a per-packet goroutine the receive loop waits in: none,
\* the call is a go statement (main.go 295)
LoopWaitsFor == {}

\* handleUDPRelay: ReadFromUDP stores the next datagram at the start of the
\* one buffer, and a goroutine is started on buffer[:n] (main.go 287-295)
HandleUDPRelay ==
    /\ received < MaxDatagrams
    /\ \A t \in TaskIds : tasks[t].pos \notin LoopWaitsFor
    /\ ~Crashed
    /\ \E d \in UdpDatagramPool :
          /\ buffer' = d \o SubSeq(buffer, Len(d) + 1, Len(buffer))
          /\ SetTask(received + 1, [NoTask EXCEPT !.pos = "parse", !.n = Len(d),
                                                  !.clientAddr = ClientAddr(received + 1),
                                                  !.orig = d])
    /\ received' = received + 1
    /\ UNCHANGED <<ctlVars, cliState, hsVars, reqVars, netVars, relayVars, udpPort>>

\* data, as the goroutine of datagram t sees it now: its slice of the buffer
Data(t) == SubSeq(buffer, 1, tasks[t].n)

\* processUDPPacket up to the port (main.go 300-355)
UdpParse(t) ==
    /\ tasks[t].pos = "parse"
    /\ ~Crashed
    /\ LET p == ParsePacket(Data(t))
       IN IF p.ok
          THEN SetTask(t, [tasks[t] EXCEPT !.pos = "forward", !.addrType = p.addrType,
                                           !.targetAddr = p.targetAddr,
                                           !.targetPort = p.targetPort,
                                           !.headerLen = p.headerLen])
          ELSE SetTask(t, [tasks[t] EXCEPT
                     !.pos = IF p.why = "panic" THEN "panic" ELSE "exit",
                     !.why = p.why])
    /\ UNCHANGED <<ctlVars, cliState, hsVars, reqVars, netVars, relayVars,
                   udpPort, buffer, received>>

\* ResolveUDPAddr, DialUDP and tempConn.Write(payload), payload being
\* data[headerLen:] as it is now (main.go 358-381); a target that is no
\* host:port fails to resolve, and out is what the network makes of the
\* others: all succeed, the name lookup or the dial fails, the write fails
UdpForward(t) ==
    /\ tasks[t].pos = "forward"
    /\ ~Crashed
    /\ LET hp == SplitHostPort(FormatTarget(tasks[t].targetAddr, tasks[t].targetPort))
           payload == SubSeq(Data(t), tasks[t].headerLen + 1, tasks[t].n)
       IN IF ~hp.ok
          THEN SetTask(t, [tasks[t] EXCEPT !.pos = "exit", !.why = "resolve"])
          ELSE \E out \in {"ok", "lookup", "write"} :
                 IF out = "ok"
                 THEN SetTask(t, [tasks[t] EXCEPT
                          !.pos = "await", !.tempConn = "open",
                          !.sent = <<[host |-> hp.host, port |-> hp.port,
                                      payload |-> payload]>>])
                 ELSE SetTask(t, [tasks[t] EXCEPT
                          !.pos = "exit", !.why = out,
                          !.tempConn = IF out = "write" THEN TempConnDeferred ELSE "none"])
    /\ UNCHANGED <<ctlVars, cliState, hsVars, reqVars, netVars, relayVars,
                   udpPort, buffer, received>>

\* tempConn.Read returns the destination's answer before the deadline; the
\* reply is built and written to clientAddr on the shared socket, and the
\* deferred tempConn.Close() runs (main.go 386-401, 375)
UdpRelayReply(t) ==
    /\ tasks[t].pos = "await"
    /\ ~Crashed
    /\ \E r \in UdpReplyPool :
          SetTask(t, [tasks[t] EXCEPT
              !.pos = "exit", !.tempConn = TempConnDeferred,
              !.replies = Append(@, [to |-> tasks[t].clientAddr,
                                     data |-> buildUDPReply(tasks[t].targetAddr,
                                                  tasks[t].targetPort,
                                                  tasks[t].addrType, r)])])
    /\ UNCHANGED <<ctlVars, cliState, hsVars, reqVars, netVars, relayVars,
                   udpPort, buffer, received>>

\* tempConn.Read fails or its 5-second deadline passes: nothing is sent back
\* and the deferred tempConn.Close() runs (main.go 386-392, 375)
UdpReadFails(t) ==
    /\ tasks[t].pos = "await"
    /\ ~Crashed
    /\ SetTask(t, [tasks[t] EXCEPT !.pos = "exit", !.tempConn = TempConnDeferred,
                                   !.why = "timeout"])
    /\ UNCHANGED <<ctlVars, cliState, hsVars, reqVars, netVars, relayVars,
                   udpPort, buffer, received>>

\* processUDPPacket returns: the goroutine and its locals are gone
UdpReturn(t) ==
    /\ tasks[t].pos = "exit"
    /\ ~Crashed
    /\ SetTask(t, [NoTask EXCEPT !.pos = "returned"])
    /\ UNCHANGED <<ctlVars, cliState, hsVars, reqVars, netVars, relayVars,
                   udpPort, buffer, received>>

ProcessUDPPacket(t) ==
    UdpParse(t) \/ UdpForward(t) \/ UdpRelayReply(t) \/ UdpReadFails(t) \/ UdpReturn(t)

NextUdp == HandleUDPRelay \/ \E t \in TaskIds : ProcessUDPPacket(t)

\* the relay socket is on port 1080 and no control session has started
InitUdp == Init /\ udpPort = 1080

\* the datagram relay on its own
SpecUdp == InitUdp /\ [][NextUdp]_vars

(* ================================================================== claims *)
\* the session's bytes on the control connection after the method reply
AfterMethodReply == SubSeq(cliOut, 3, Len(cliOut))

\* the handshake call is over: it returned nil or the session ended in it
HandshakeOver == version = socks5Version /\ pc \in {"reqHeader", "done"}

\* C1: whenever handshake has read a version-5 header and all nMethods method
\* bytes, it has consumed exactly 2 + nMethods bytes and written exactly
\* {0x05, 0x00}, whatever the count and the method bytes; it returns nil unless
\* that write failed; nothing is written before, and the first two bytes ever
\* written on the control connection are 0x05, 0x00.
C1_HandshakeReply ==
    /\ pc \in {"hsHeader", "hsMethods"} => cliOut = <<>>
    /\ Len(cliOut) >= 2 => cliOut[1] = 5 /\ cliOut[2] = 0
    /\ HandshakeOver /\ Len(methods) = nMethods /\ err # "read"
          => /\ nread = 2 + nMethods
             /\ cliOut = <<5, 0>>
             /\ (pc = "done" => err = "write" /\ cliState = "aborted")
    /\ HandshakeOver /\ err = "read" => nread = 2 /\ nMethods > 0 /\ cliOut = <<>>

\* C1 witness: two methods offered, none of them "no authentication", and the
\* reply {0x05, 0x00} is written
C1_Witness ==
    /\ pc = "reqHeader"
    /\ nMethods = 2
    /\ methods = <<2, 2>>
    /\ nread = 4
    /\ cliOut = <<5, 0>>

\* the request header was read by handleRequest and passed the version check
RequestRead == reqVersion = socks5Version

\* C2: a version-5 request whose command is neither CONNECT nor UDP ASSOCIATE
\* ends the session at once: the reply with code 0x07 is the only request
\* reply written, nothing is dialed, no relay goroutine is started, nothing is
\* forwarded, and the control connection is closed.
C2_UnsupportedCommand ==
    RequestRead /\ cmd \notin {0, connectCmd, udpAssociate}
        => /\ pc = "done"
           /\ err = "command"
           /\ AfterMethodReply = <<5, 7, 0, 1, 0, 0, 0, 0, 0, 0>>
           /\ dialed = NoDial /\ tgtState = "none" /\ targetConn = "nil"
           /\ \A d \in Dirs : cp[d].pos = "idle"
           /\ tgtOut = <<>>
           /\ connClosed

\* C2 witness: the undefined command 0x04 was rejected
C2_Witness ==
    /\ RequestRead
    /\ cmd = 4
    /\ pc = "done"
    /\ cliOut = <<5, 0, 5, 7, 0, 1, 0, 0, 0, 0, 0, 0>>

\* C3 (as claimed): a version-5 CONNECT or UDP ASSOCIATE request whose address
\* type is not 0x01, 0x03 or 0x04 gets reply code 0x08 and never a success
\* reply.
C3_UnsupportedAddrType ==
    RequestRead /\ cmd \in {connectCmd, udpAssociate} /\ addrType \notin SupportedAddrTypes
        => /\ Len(AfterMethodReply) >= 2 => AfterMethodReply[2] = 8
           /\ pc \in {"accepted", "done"} => AfterMethodReply = <<5, 8, 0, 1, 0, 0, 0, 0, 0, 0>>

\* C4: when the dial of a CONNECT request fails the client is sent exactly one
\* request reply, with code 0x05, and the session is closed: no success reply,
\* no relay goroutine, no destination connection, nothing forwarded.
C4_DialFails ==
    err = "dial"
        => /\ pc = "done"
           /\ cmd = connectCmd
           /\ AfterMethodReply = <<5, 5, 0, 1, 0, 0, 0, 0, 0, 0>>
           /\ connClosed
           /\ dialed = NoDial /\ tgtState = "none" /\ targetConn = "nil"
           /\ \A d \in Dirs : cp[d].pos = "idle"
           /\ tgtOut = <<>> /\ cin = <<>>

\* C4 witness: an IPv4 destination that does not accept the connection
C4_Witness ==
    /\ err = "dial"
    /\ addrType = ipv4Address
    /\ addr = <<93, 184, 216, 34>>
    /\ ~reachable
    /\ cliOut = <<5, 0, 5, 5, 0, 1, 0, 0, 0, 0, 0, 0>>

\* the host string h names the address a of a request with address type atyp
HostIs(h, atyp, a) ==
    IF atyp = domainName THEN h = a
    ELSE IF atyp = ipv4Address THEN ParseIPv4(h) = a
    ELSE IF IsV4Mapped(a) THEN ParseIPv4(h) = SubSeq(a, 13, 16)
    ELSE h = IPv6String(a)

\* a CONNECT request with a complete address of a supported type and a port;
\* a domain name has at least one byte and only host-name letters
WellFormedConnect ==
    /\ RequestRead /\ cmd = connectCmd
    /\ Len(portBuf) = 2
    /\ \/ addrType = ipv4Address /\ Len(addr) = 4
       \/ addrType = ipv6Address /\ Len(addr) = 16
       \/ addrType = domainName /\ Len(addr) >= 1 /\ \A i \in 1..Len(addr) : addr[i] = 97

\* C5 (as claimed): for each address type a well-formed CONNECT request whose
\* destination is reachable is dialed at exactly the decoded address and
\* big-endian port and gets the success reply before the relay starts.
C5_ConnectAllAddrTypes ==
    WellFormedConnect /\ reachable /\ pc \in {"reply", "accepted", "done"}
        => /\ err # "dial"
           /\ dialed.ok
           /\ HostIs(dialed.host, addrType, addr)
           /\ IsDecimal(dialed.port)
           /\ ParseDecimal(dialed.port) = portBuf[1] * 256 + portBuf[2]
           /\ pc = "accepted" => AfterMethodReply = <<5, 0, 0, 1, 0, 0, 0, 0, 0, 0>>

\* bytes written on the control connection after the 2-byte method reply and
\* the 10-byte request reply
AfterReply == SubSeq(cliOut, 13, Len(cliOut))

\* C6: in a CONNECT session the bytes written to the destination are a prefix
\* of what the client sent after its request, the bytes written to the client
\* after the success reply are a prefix of what the destination sent, and
\* while a copy loop runs every byte is in exactly one place, in order:
\* written, in the loop's buffer, or still unread.
C6_RelayOrder ==
    targetConn = "tcp"
        => /\ IsPrefix(tgtOut, cliSent)
           /\ SubSeq(cliOut, 1, 12) = <<5, 0, 5, 0, 0, 1, 0, 0, 0, 0, 0, 0>>
           /\ IsPrefix(AfterReply, tgtSent)
           /\ cp["c2t"].pos \in {"read", "write"}
                 => tgtOut \o cp["c2t"].buf \o cin = cliSent
           /\ cp["t2c"].pos \in {"read", "write"}
                 => AfterReply \o cp["t2c"].buf \o tin = tgtSent

\* C6 witness: two bytes went each way while both peers are still open
C6_Witness ==
    /\ targetConn = "tcp"
    /\ pc = "relay"
    /\ cliState = "open" /\ tgtState = "open"
    /\ tgtOut = <<1, 2>>
    /\ AfterReply = <<101, 102>>

\* a copy direction of a CONNECT session has ended
CopyEnded == targetConn = "tcp" /\ \E d \in Dirs : cp[d].pos \in {"signal", "done"}

\* C7: relay can return as soon as one value is in the done channel; once a
\* copy direction of a CONNECT session has ended, the session ends with both
\* connections closed; and every session that ends after a destination
\* connection was opened has closed both connections.
C7_BothClosed ==
    /\ [](pc = "relay" /\ done > 0 => ENABLED RelayReturn)
    /\ [](pc = "done" /\ tgtState # "none" => connClosed /\ tgtClosed)
    /\ (CopyEnded ~> (pc = "done" /\ connClosed /\ tgtClosed))

\* C7 witness: the session is over and both connections are closed while the
\* destination-to-client copy is still inside its loop
C7_Witness ==
    /\ targetConn = "tcp"
    /\ pc = "done"
    /\ connClosed /\ tgtClosed
    /\ cp["c2t"].pos = "done"
    /\ cp["t2c"].pos = "read"

\* the bytes a request with this address type takes: header, address, port
RequiredBytes ==
    4 + (IF addrType = ipv4Address THEN 4
         ELSE IF addrType = ipv6Address THEN 16
         ELSE 1 + lenBuf) + 2

\* C8 (as claimed): a CONNECT or UDP ASSOCIATE request that ends before its
\* header, address and port were all read fails as a read failure and no
\* reply is written for it.
C8_TruncatedRequest ==
    /\ RequestRead /\ cmd \in {connectCmd, udpAssociate}
    /\ addrType \in SupportedAddrTypes
    /\ pc \in {"accepted", "done"}
    /\ nread < RequiredBytes
    => err = "read" /\ AfterMethodReply = <<>>

\* C9: the reply to a UDP ASSOCIATE request is {5, 0, 0, 1, 0,0,0,0} followed
\* by the datagram socket's local port, high byte first, whatever address and
\* port the request carried.
C9_UdpReply ==
    RequestRead /\ cmd = udpAssociate /\ pc \in {"accepted", "done"}
        => AfterMethodReply = <<5, 0, 0, 1, 0, 0, 0, 0, udpPort \div 256, udpPort % 256>>

\* C9 witness: the client asked for 127.0.0.1:8080, the relay socket is on 1080
C9_Witness ==
    /\ pc = "accepted"
    /\ cmd = udpAssociate
    /\ addrType = ipv4Address
    /\ addr = <<127, 0, 0, 1>>
    /\ portBuf = <<31, 144>>
    /\ udpPort = 1080
    /\ cliOut = <<5, 0, 5, 0, 0, 1, 0, 0, 0, 0, 4, 56>>

\* C10 (as claimed): once the UDP ASSOCIATE reply is written nothing more is
\* written to the control connection.
C10_NoWriteAfterUdpReply ==
    targetConn = "dummy" => Len(cliOut) = 12

\* C11 (as claimed): in a UDP ASSOCIATE session the proxy closes the control
\* connection only after the client closed it or a read on it failed, never
\* merely because the client sent bytes on it.
C11_ClosedOnlyAfterPeer ==
    targetConn = "dummy" /\ connClosed => cliState # "open"

\* the liveness half of C11, which the code keeps: once the client has closed
\* the control connection of its association the session terminates
C11_TerminatesAfterClose ==
    (targetConn = "dummy" /\ pc = "relay" /\ cliState # "open") ~> (pc = "done" /\ connClosed)

\* relay has returned and handleConnection has closed the connections
RelayReturned == pc = "done" /\ cp["c2t"].pos # "idle"

\* C20: a copy goroutine's send on done never blocks, the channel never holds
\* more than its capacity, and once relay has returned and the connections are
\* closed both copy goroutines terminate.
C20_NoPumpLeft ==
    /\ [](\A d \in Dirs : cp[d].pos = "signal" => ENABLED CopySignal(d))
    /\ [](done <= DoneCap)
    /\ (RelayReturned ~> (\A d \in Dirs : cp[d].pos = "done"))

\* C20 witness: relay returned on the first completion, the other goroutine
\* ended afterwards and its value stays in the channel, never received
C20_Witness ==
    /\ RelayReturned
    /\ targetConn = "tcp"
    /\ \A d \in Dirs : cp[d].pos = "done"
    /\ done = 1

(* ------------------------------------------------- claims: datagram relay *)
\* a client holds an association: its UDP ASSOCIATE succeeded and its control
\* connection has not been closed
AssociationOpen == targetConn = "dummy" /\ ~connClosed

\* C12 (as claimed): a datagram is forwarded to a destination only while the
\* sender's UDP association is valid, that is, only while a control connection
\* that completed UDP ASSOCIATE is still open.
C12_ForwardNeedsAssociation ==
    \A t \in TaskIds : tasks[t].sent # <<>> => AssociationOpen

\* the datagram of goroutine t, as received, has a nonzero reserved or
\* fragment byte
BadReserved(t) ==
    /\ Len(tasks[t].orig) >= 3
    /\ \E i \in 1..3 : tasks[t].orig[i] # 0

\* C13 (as claimed): for a datagram with a nonzero reserved or fragment byte
\* no ephemeral socket is opened, nothing is sent to a destination and nothing
\* is sent back to the sender.
C13_BadReservedDropped ==
    \A t \in TaskIds :
        BadReserved(t) => /\ tasks[t].tempConn = "none"
                          /\ tasks[t].sent = <<>>
                          /\ tasks[t].replies = <<>>

\* what C13 says of the bytes a goroutine reads: a packet it sees with a
\* nonzero reserved or fragment byte goes no further
BadReservedNotParsed ==
    \A d \in UdpDatagramPool :
        (Len(d) >= 3 /\ \E i \in 1..3 : d[i] # 0) => ~ParsePacket(d).ok

\* goroutine t has written its payload to a destination
Forwarded(t) == tasks[t].sent # <<>>

\* C14: a goroutine sends at most one datagram back, and only after it
\* forwarded; when it returns after forwarding, its ephemeral socket is
\* closed and it has sent exactly one reply, to the source address recorded
\* for its datagram, if the destination's answer was read, and none if the
\* read timed out or failed.
C14_OneReply ==
    \A t \in TaskIds :
        /\ Len(tasks[t].replies) <= 1
        /\ tasks[t].replies # <<>> => Forwarded(t)
        /\ Forwarded(t) => tasks[t].pos \in {"await", "exit"} /\ tasks[t].tempConn # "none"
        /\ Forwarded(t) /\ tasks[t].pos = "await" => tasks[t].replies = <<>>
        /\ Forwarded(t) /\ tasks[t].pos = "exit"
              => /\ tasks[t].tempConn = "closed"
                 /\ IF tasks[t].why = "timeout"
                    THEN tasks[t].replies = <<>>
                    ELSE /\ Len(tasks[t].replies) = 1
                         /\ tasks[t].replies[1].to = tasks[t].clientAddr

\* C14 witness: both goroutines forwarded, for different senders; the first
\* got its answer and sent one reply to its sender, the second timed out
C14_Witness ==
    /\ tasks[1].pos = "exit" /\ tasks[2].pos = "exit"
    /\ tasks[1].clientAddr = ClientAddr(1) /\ tasks[2].clientAddr = ClientAddr(2)
    /\ Forwarded(1) /\ Forwarded(2)
    /\ Len(tasks[1].replies) = 1 /\ tasks[1].replies[1].to = ClientAddr(1)
    /\ tasks[2].why = "timeout" /\ tasks[2].replies = <<>>
    /\ tasks[1].tempConn = "closed" /\ tasks[2].tempConn = "closed"

\* C17: whatever the per-packet goroutines are doing (parsing, waiting for a
\* destination's answer, returned after a failure or a timeout), the receive
\* loop can take the next datagram.
C17_LoopNeverWaits ==
    received < MaxDatagrams => ENABLED HandleUDPRelay

\* C17 witness: the second datagram was received while the first goroutine
\* still waits for its destination's answer
C17_Witness ==
    /\ tasks[1].pos = "await"
    /\ tasks[2].pos = "parse"
    /\ received = 2

\* C17 witness of the failure case: the first goroutine's read timed out and
\* the loop has taken another datagram since
LoopServesAfterTimeout ==
    /\ tasks[1].pos = "exit" /\ tasks[1].why = "timeout"
    /\ tasks[2].pos = "parse"

\* an envelope with zero reserved and fragment bytes and a supported address
\* type (and, for a domain name, its length byte)
SupportedEnvelope(d) ==
    /\ Len(d) >= 4
    /\ d[1] = 0 /\ d[2] = 0 /\ d[3] = 0
    /\ d[4] \in SupportedAddrTypes
    /\ d[4] = domainName => Len(d) >= 5

\* the header size of such an envelope: 4 + address + 2
EnvelopeHeaderLen(d) ==
    IF d[4] = ipv4Address THEN 4 + 4 + 2
    ELSE IF d[4] = ipv6Address THEN 4 + 16 + 2
    ELSE 4 + 1 + d[5] + 2

\* the address bytes of a complete envelope, without a domain's length byte
EnvelopeAddr(d) ==
    IF d[4] = domainName THEN SubSeq(d, 6, 5 + d[5])
    ELSE SubSeq(d, 5, EnvelopeHeaderLen(d) - 2)

\* the port of a complete envelope
EnvelopePort(d) == Uint16BE(SubSeq(d, EnvelopeHeaderLen(d) - 1, EnvelopeHeaderLen(d)))

\* a complete envelope: supported and not shorter than its header
CompleteEnvelope(d) == SupportedEnvelope(d) /\ Len(d) >= EnvelopeHeaderLen(d)

\* C15 (as claimed): every reply envelope sent to a client starts with three
\* zero bytes, repeats the address type, address bytes and port of the inbound
\* envelope it answers, and ends with the destination's payload unmodified.
C15_ReplyRepeatsHeader ==
    \A t \in TaskIds :
        \A i \in 1..Len(tasks[t].replies) :
            LET d == tasks[t].orig
                data == tasks[t].replies[i].data
            IN /\ CompleteEnvelope(d)
               /\ Len(data) >= EnvelopeHeaderLen(d)
               /\ Take(data, 3) = <<0, 0, 0>>
               /\ SubSeq(data, 4, EnvelopeHeaderLen(d)) = SubSeq(d, 4, EnvelopeHeaderLen(d))
               /\ SubSeq(data, EnvelopeHeaderLen(d) + 1, Len(data)) \in UdpReplyPool

\* the algebraic half of C15, which the code keeps: decoding a packet and
\* re-encoding the decoded header with buildUDPReply gives back the header
\* bytes, followed by the payload, for every packet that passes validation
EnvelopeRoundTrip ==
    \A d \in UdpDatagramPool : \A r \in UdpReplyPool :
        LET p == ParsePacket(d)
        IN p.ok => buildUDPReply(p.targetAddr, p.targetPort, p.addrType, r)
                      = Take(d, p.headerLen) \o r

\* C16 (as claimed): what a goroutine forwards is its own datagram's
\* destination address, port and payload, whatever the receive loop and the
\* other goroutines did in between.
C16_ForwardsOwnDatagram ==
    \A t \in TaskIds :
        Forwarded(t)
            => LET p == ParsePacket(tasks[t].orig)
               IN /\ p.ok
                  /\ tasks[t].targetAddr = p.targetAddr
                  /\ tasks[t].targetPort = p.targetPort
                  /\ tasks[t].sent[1].payload
                        = SubSeq(tasks[t].orig, p.headerLen + 1, Len(tasks[t].orig))

\* goroutine t is past its validation
Validated(t) == tasks[t].pos \in {"forward", "await", "exit"}

\* C18 (as claimed): a datagram with zero reserved and fragment bytes and a
\* supported address type is dropped for its length exactly when it is shorter
\* than the header of its type; one that is exactly its header is accepted.
C18_DroppedIffShort ==
    \A t \in TaskIds :
        SupportedEnvelope(tasks[t].orig) /\ Validated(t)
            => (tasks[t].why = "short"
                   <=> Len(tasks[t].orig) < EnvelopeHeaderLen(tasks[t].orig))

\* C19 (as claimed): for every datagram that passes validation, of each of the
\* three address types, unless the network fails the goroutine opens a socket
\* to exactly the decoded address and port and writes exactly the bytes that
\* follow the header.
C19_ForwardsAllAddrTypes ==
    \A t \in TaskIds :
        LET d == tasks[t].orig
        IN /\ ParsePacket(d).ok
           /\ tasks[t].pos \in {"await", "exit"}
           /\ tasks[t].why \notin {"lookup", "write"}
           => /\ Forwarded(t)
              /\ HostIs(tasks[t].sent[1].host, d[4], EnvelopeAddr(d))
              /\ tasks[t].sent[1].port = Decimal(EnvelopePort(d))
              /\ tasks[t].sent[1].payload = SubSeq(d, EnvelopeHeaderLen(d) + 1, Len(d))

\* C21: no goroutine panics, and whatever bytes a goroutine that is about to
\* parse finds in its slice of the buffer, every index it would read and
\* every slice it would take stays within len(data): if the packet passes,
\* headerLen <= len(data) and the port is the two bytes at headerLen-2 and
\* headerLen-1.
C21_NoIndexOutOfRange ==
    \A t \in TaskIds :
        /\ tasks[t].pos # "panic"
        /\ tasks[t].pos = "parse"
              => LET p == ParsePacket(Data(t))
                 IN /\ ReadBound(Data(t)) <= tasks[t].n
                    /\ p.ok => /\ p.headerLen <= tasks[t].n
                               /\ p.headerLen >= 2
                               /\ p.targetPort = Data(t)[p.headerLen - 1] * 256
                                                    + Data(t)[p.headerLen]
        /\ Validated(t) /\ tasks[t].headerLen > 0 => tasks[t].headerLen <= tasks[t].n

\* C21 witness: a goroutine has parsed a 10-byte packet whose domain length
\* byte announces 4 bytes, one more than the packet holds, and dropped it
C21_Witness ==
    /\ tasks[1].orig = Take(DomainPacket(4, <<>>), 10)
    /\ tasks[1].pos = "exit"
    /\ tasks[1].why = "short"
    /\ received = 1
====
